---- MODULE Spec2Model ----
(***************************************************************************)
(* TGAImage (src/src/tgaimage.cpp, src/include/tga/tgaimage.h): the TGA    *)
(* codec of MySoftRenderer, as a state machine over one image object;      *)
(* with it the frame of a call of unload_rle_data run statement by         *)
(* statement (enc) and the operands of vec<n>'s operator+ and operator-    *)
(* of src/include/math/geometry.h (vecs).                                  *)
(*                                                                         *)
(* Buffers and files are sequences of bytes; the C++ index k is the TLA+   *)
(* index k+1.  An access outside the std::vector is undefined behaviour:   *)
(* the operators report it (oob), an out-of-bounds read yields an          *)
(* arbitrary byte, an out-of-bounds store is lost to foreign memory, and   *)
(* the action that performed it either carries on or aborts the process.   *)
(***************************************************************************)
EXTENDS Integers, Sequences, FiniteSets, TLC

VARIABLES w, h, bpp, data, alive, last, vecs, enc

vars == <<w, h, bpp, data, alive, last, vecs, enc>>

-----------------------------------------------------------------------------
(* Bounds of the model *)

\* largest number of pixels (w*h) of a constructed image or a crafted header
MaxPix == 4
\* largest width and height of an image the API specification constructs
MaxDim == 2
\* largest absolute value of a component of a vec<n> operand
MaxCoord == 1

-----------------------------------------------------------------------------
(* Program constants *)

GRAYSCALE == 1
RGB == 3
RGBA == 4
max_chunk_length == 128
HeaderSize == 18

Formats == {GRAYSCALE, RGB, RGBA}

\* TGAColor: four channel bytes and the bytes-per-pixel tag
TGAColor(b, n) == [bgra |-> b, bytespp |-> n]

\* TGAColor{} : the default member initialisers
DefaultColor == TGAColor(<<0, 0, 0, 0>>, 4)

\* the footer write_tga_file appends: two 4-byte references and the signature
developer_area_ref == <<0, 0, 0, 0>>
extension_area_ref == <<0, 0, 0, 0>>
footer == <<84, 82, 85, 69, 86, 73, 83, 73, 79, 78, 45, 88, 70, 73, 76, 69, 46, 0>>

-----------------------------------------------------------------------------
(* Inputs the model draws from *)

\* colours handed to the constructor and to set
Colors == { TGAColor(<<0, 0, 0, 0>>, 4), TGAColor(<<7, 8, 9, 10>>, 4) }

\* the pixels of the images and files the codec is run on: the second and the
\* third agree in their first two bytes
Pixels == { <<0, 0, 0, 0>>, <<7, 8, 9, 10>>, <<7, 8, 5, 11>> }

\* what an out-of-bounds read may find in foreign memory
UBBytes == {0, 170}

\* the widths and heights with at most MaxPix pixels
Dims == { d \in (1..MaxPix) \X (1..MaxPix) : d[1] * d[2] <= MaxPix }

-----------------------------------------------------------------------------
(* The image object as a value *)

Image(iw, ih, ib, d) == [w |-> iw, h |-> ih, bpp |-> ib, data |-> d]

Cur == Image(w, h, bpp, data)

Zeros(n) == [k \in 1..n |-> 0]

\* data[k] of the C++ vector; u stands for the byte an out-of-bounds read finds
At(d, k, u) == IF k >= 0 /\ k < Len(d) THEN d[k + 1] ELSE u

\* the guard shared by get and set
OutOfRange(img, x, y) ==
  Len(img.data) = 0 \/ x < 0 \/ y < 0 \/ x >= img.w \/ y >= img.h

\* memcpy(data.data()+off, src, n): the bytes that fall inside the vector
StoreBytes(d, off, src, n) ==
  [k \in 1..Len(d) |-> IF k - 1 >= off /\ k - 1 < off + n THEN src[k - off] ELSE d[k]]

\* TGAImage::set; also says whether the memcpy left the vector
SetPix(img, x, y, c) ==
  IF OutOfRange(img, x, y)
  THEN [img |-> img, oob |-> FALSE]
  ELSE LET off == (x + y * img.w) * img.bpp
       IN [img |-> [img EXCEPT !.data = StoreBytes(img.data, off, c.bgra, img.bpp)],
           oob |-> off + img.bpp > Len(img.data)]

\* TGAImage::get
GetPix(img, x, y, u) ==
  IF OutOfRange(img, x, y)
  THEN [ret |-> DefaultColor, oob |-> FALSE]
  ELSE LET off == (x + y * img.w) * img.bpp
       IN [ret |-> TGAColor([i \in 1..4 |-> IF i <= img.bpp
                                          THEN At(img.data, off + i - 1, u) ELSE 0],
                            img.bpp),
           oob |-> off + img.bpp > Len(img.data)]

\* TGAImage::TGAImage(w, h, bpp, c): data(w*h*bpp), then set(i, j, c) for every cell
RECURSIVE FillFrom(_, _, _)
FillFrom(img, n, c) ==
  IF n >= img.w * img.h THEN img
  ELSE FillFrom(SetPix(img, n % img.w, n \div img.w, c).img, n + 1, c)

Construct(cw, ch, cb, c) == FillFrom(Image(cw, ch, cb, Zeros(cw * ch * cb)), 0, c)

\* the byte indices flip_horizontally swaps with each other: (i,j,b) <-> (w-1-i,j,b)
HPartner(img, k) ==
  LET b == k % img.bpp
      p == k \div img.bpp
      i == p % img.w
      j == p \div img.w
  IN IF img.bpp = 0 \/ img.w = 0 \/ j >= img.h \/ i = img.w - 1 - i
     THEN k
     ELSE (img.w - 1 - i + j * img.w) * img.bpp + b

\* the byte indices flip_vertically swaps with each other: (i,j,b) <-> (i,h-1-j,b)
VPartner(img, k) ==
  LET b == k % img.bpp
      p == k \div img.bpp
      i == p % img.w
      j == p \div img.w
  IN IF img.bpp = 0 \/ img.w = 0 \/ j >= img.h \/ j = img.h - 1 - j
     THEN k
     ELSE (i + (img.h - 1 - j) * img.w) * img.bpp + b

\* flip_horizontally with an assignment for its swap: the left half of every
\* row becomes the mirror of the right half, the right half stays
FlipH_Copy(img, u) ==
  [img |-> [img EXCEPT !.data = [k \in 1..Len(img.data) |->
                                   IF HPartner(img, k - 1) > k - 1
                                   THEN At(img.data, HPartner(img, k - 1), u)
                                   ELSE img.data[k]]],
   oob |-> img.w * img.h * img.bpp > Len(img.data) /\ img.w >= 2]

\* TGAImage::flip_horizontally: the swaps are over disjoint pairs of indices
FlipH(img, u) ==
  [img |-> [img EXCEPT !.data = [k \in 1..Len(img.data) |->
                                   At(img.data, HPartner(img, k - 1), u)]],
   oob |-> img.w * img.h * img.bpp > Len(img.data) /\ img.w >= 2]

\* flip_vertically with its swaps left out
FlipV_None(img, u) == [img |-> img, oob |-> FALSE]

\* TGAImage::flip_vertically
FlipV(img, u) ==
  [img |-> [img EXCEPT !.data = [k \in 1..Len(img.data) |->
                                   At(img.data, VPartner(img, k - 1), u)]],
   oob |-> img.w * img.h * img.bpp > Len(img.data) /\ img.h >= 2]

-----------------------------------------------------------------------------
(* Files *)

\* a 16-bit header field, little-endian, as the packed TGAHeader stores it
Lo(n) == (n % 65536) % 256
Hi(n) == (n % 65536) \div 256

\* the 18 bytes of a TGAHeader with the given fields, all others zero
HeaderBytes(datatypecode, width, height, bitsperpixel, imagedescriptor) ==
  <<0, 0, datatypecode % 256, 0, 0, 0, 0, 0, 0, 0, 0, 0,
    Lo(width), Hi(width), Lo(height), Hi(height),
    bitsperpixel % 256, imagedescriptor % 256>>

\* the fields read_tga_file uses of the header it read
HdrType(f) == f[3]
HdrWidth(f) == f[13] + 256 * f[14]
HdrHeight(f) == f[15] + 256 * f[16]
HdrBits(f) == f[17]
HdrDesc(f) == f[18]

\* imagedescriptor & 0x20, imagedescriptor & 0x10
TopOrigin(desc) == (desc \div 32) % 2 = 1
RightToLeft(desc) == (desc \div 16) % 2 = 1

\* bytes k .. k+n-1 (C++ offsets) of a file
Slice(f, k, n) == SubSeq(f, k + 1, k + n)

-----------------------------------------------------------------------------
(* TGAImage::load_rle_data *)

\* The loops of the codec run up to max_chunk_length times; each is written
\* here by what its iterations add up to, iteration by iteration in the
\* comments, so that evaluating it needs no nesting that deep.

\* data[currentbyte++] = colorbuffer.bgra[t] for t < bpp, currentpixel++,
\* for k pixels whose bytes are src
\* st: [pos, px, byte, data, oob]; pos is the stream position in the file
PutPixels(st, src, k, nb) ==
  [st EXCEPT !.data = StoreBytes(st.data, st.byte, src, k * nb),
             !.oob  = st.oob \/ (k > 0 /\ st.byte + k * nb > Len(st.data)),
             !.byte = st.byte + k * nb,
             !.px   = st.px + k]

\* the raw packet's loop, for (i = 0; i < n; i++): iteration i reads a pixel
\* (and fails if the file has fewer than bpp bytes left), stores it, counts it,
\* and fails if the count has passed w*h.  have: the whole pixels left in the
\* file; room: the pixels the count may still grow by.
RawPacket(f, st, n, img) ==
  LET nb == img.bpp
      have == (Len(f) - st.pos) \div nb
      room == img.w * img.h - st.px
      k == IF n <= room /\ n <= have THEN n
           ELSE IF have <= room THEN have
           ELSE room + 1
  IN [ok |-> n <= room /\ n <= have,
      st |-> PutPixels([st EXCEPT !.pos = st.pos + k * nb], Slice(f, st.pos, k * nb), k, nb)]

\* n copies of the bytes p
Repeat(p, n) == [k \in 1..(n * Len(p)) |-> p[((k - 1) % Len(p)) + 1]]

\* the repeated packet's loop without its check of the count against w*h
RepPacket_NoLimit(color, st, n, img) ==
  [ok |-> TRUE, st |-> PutPixels(st, Repeat(color, n), n, img.bpp)]

\* the repeated packet's loop, its colour already read: iteration i stores the
\* colour, counts it, and fails if the count has passed w*h
RepPacket(color, st, n, img) ==
  LET room == img.w * img.h - st.px
      k == IF n <= room THEN n ELSE room + 1
  IN [ok |-> n <= room,
      st |-> PutPixels(st, Repeat(color, k), k, img.bpp)]

\* one packet with the repeated packet's count taken as chunkheader - 128
Packet_RepCount(f, st, img) ==
  IF st.pos >= Len(f) THEN [ok |-> FALSE, st |-> st]
  ELSE LET chunkheader == f[st.pos + 1]
           s1 == [st EXCEPT !.pos = st.pos + 1]
       IN IF chunkheader < 128
          THEN RawPacket(f, s1, chunkheader + 1, img)
          ELSE IF s1.pos + img.bpp > Len(f) THEN [ok |-> FALSE, st |-> s1]
          ELSE RepPacket(Slice(f, s1.pos, img.bpp),
                         [s1 EXCEPT !.pos = s1.pos + img.bpp],
                         chunkheader - 128, img)

\* one packet: its header byte, then one of the two loops
Packet(f, st, img) ==
  IF st.pos >= Len(f) THEN [ok |-> FALSE, st |-> st]
  ELSE LET chunkheader == f[st.pos + 1]
           s1 == [st EXCEPT !.pos = st.pos + 1]
       IN IF chunkheader < 128
          THEN RawPacket(f, s1, chunkheader + 1, img)
          ELSE IF s1.pos + img.bpp > Len(f) THEN [ok |-> FALSE, st |-> s1]
          ELSE RepPacket(Slice(f, s1.pos, img.bpp),
                         [s1 EXCEPT !.pos = s1.pos + img.bpp],
                         chunkheader - 127, img)

\* do { packet } while (currentpixel < pixelcount)
RECURSIVE RleLoop(_, _, _)
RleLoop(f, st, img) ==
  LET r == Packet(f, st, img)
  IN IF ~r.ok THEN [ok |-> FALSE, st |-> r.st]
     ELSE IF r.st.px < img.w * img.h THEN RleLoop(f, r.st, img)
     ELSE [ok |-> TRUE, st |-> r.st]

\* load_rle_data on the stream that starts at offset pos of f, into img.data
load_rle_data(f, pos, img) ==
  RleLoop(f, [pos |-> pos, px |-> 0, byte |-> 0, data |-> img.data, oob |-> FALSE], img)

-----------------------------------------------------------------------------
(* TGAImage::read_tga_file *)

\* the orientation step with the test of bit 0x20 inverted
Normalize_Inverted(img, desc) ==
  LET v == IF TopOrigin(desc) THEN FlipV(img, 0).img ELSE img
  IN IF RightToLeft(desc) THEN FlipH(v, 0).img ELSE v

\* the orientation step that ends a successful read
Normalize(img, desc) ==
  LET v == IF ~TopOrigin(desc) THEN FlipV(img, 0).img ELSE img
  IN IF RightToLeft(desc) THEN FlipH(v, 0).img ELSE v

\* the header's check: what the code accepts
BadHeader(hw, hh, hb) == hw <= 0 \/ hh <= 0 \/ hb \notin Formats

\* read_tga_file on an opened file f: [ok, img, oob, px], px the pixels the RLE
\* decoder counted (0 when it did not run)
ReadTga(img, f) ==
  IF Len(f) < HeaderSize
  THEN [ok |-> FALSE, img |-> img, oob |-> FALSE, px |-> 0]
  ELSE
    LET hw == HdrWidth(f)
        hh == HdrHeight(f)
        hb == HdrBits(f) \div 8
        nbytes == hw * hh * hb
        fresh == Image(hw, hh, hb, Zeros(nbytes))
        avail == Len(f) - HeaderSize
    IN IF BadHeader(hw, hh, hb)
       THEN [ok |-> FALSE, img |-> Image(hw, hh, hb, img.data), oob |-> FALSE, px |-> 0]
       ELSE IF HdrType(f) \in {2, 3}
       THEN IF avail >= nbytes
            THEN [ok |-> TRUE,
                  img |-> Normalize([fresh EXCEPT !.data = Slice(f, HeaderSize, nbytes)],
                                    HdrDesc(f)),
                  oob |-> FALSE, px |-> 0]
            ELSE [ok |-> FALSE,
                  img |-> [fresh EXCEPT !.data = Slice(f, HeaderSize, avail)
                                                   \o Zeros(nbytes - avail)],
                  oob |-> FALSE, px |-> 0]
       ELSE IF HdrType(f) \in {10, 11}
       THEN LET r == load_rle_data(f, HeaderSize, fresh)
                got == [fresh EXCEPT !.data = r.st.data]
            IN IF r.ok
               THEN [ok |-> TRUE, img |-> Normalize(got, HdrDesc(f)),
                     oob |-> r.st.oob, px |-> r.st.px]
               ELSE [ok |-> FALSE, img |-> got, oob |-> r.st.oob, px |-> r.st.px]
       ELSE [ok |-> FALSE, img |-> fresh, oob |-> FALSE, px |-> 0]

-----------------------------------------------------------------------------
(* TGAImage::unload_rle_data *)

\* succ_eq: the pixel at byte offset curbyte equals the next one
SuccEq(img, curbyte, u) ==
  \A t \in 0..(img.bpp - 1) :
     At(img.data, curbyte + t, u) = At(img.data, curbyte + t + img.bpp, u)

\* the least element of a non-empty set of numbers
Least(S) == CHOOSE m \in S : \A n \in S : m <= n

\* the inner while with its limit one short: run_length < max_chunk_length - 1
ScanRun_ShortLimit(img, curpix, u) ==
  LET left == img.w * img.h - curpix
      limit == IF left < max_chunk_length - 1 THEN left ELSE max_chunk_length - 1
      eq(j) == SuccEq(img, (curpix + j - 1) * img.bpp, u)
      raw == limit <= 1 \/ ~eq(1)
      breaks == { j \in 2..(limit - 1) : eq(j) = raw }
  IN [run_length |-> IF limit <= 1 THEN 1
                     ELSE IF breaks = {} THEN limit
                     ELSE IF raw THEN Least(breaks) - 1
                     ELSE Least(breaks),
      raw |-> raw]

\* the inner while: [run_length, raw] when it ends.  The iteration entered with
\* run_length = j compares pixel curpix+j-1 with its successor; the first one
\* sets raw = !succ_eq and cannot break; a raw run breaks, with run_length j-1,
\* at the first j whose pixels are equal, a repeated run breaks, with
\* run_length j, at the first j whose pixels differ; otherwise the loop ends
\* with run_length at its limit.
ScanRun(img, curpix, u) ==
  LET left == img.w * img.h - curpix
      limit == IF left < max_chunk_length THEN left ELSE max_chunk_length
      eq(j) == SuccEq(img, (curpix + j - 1) * img.bpp, u)
      raw == limit <= 1 \/ ~eq(1)
      breaks == { j \in 2..(limit - 1) : eq(j) = raw }
  IN [run_length |-> IF limit <= 1 THEN 1
                     ELSE IF breaks = {} THEN limit
                     ELSE IF raw THEN Least(breaks) - 1
                     ELSE Least(breaks),
      raw |-> raw]

\* the packet with a raw header byte of run_length instead of run_length - 1
EmitPacket_RawLength(img, curpix, run, u) ==
  LET chunkstart == curpix * img.bpp
      n == IF run.raw THEN run.run_length * img.bpp ELSE img.bpp
  IN <<(IF run.raw THEN run.run_length ELSE run.run_length + 127) % 256>>
     \o [k \in 1..n |-> At(img.data, chunkstart + k - 1, u)]

\* the packet the outer loop emits at curpix: header byte and payload
EmitPacket(img, curpix, run, u) ==
  LET chunkstart == curpix * img.bpp
      n == IF run.raw THEN run.run_length * img.bpp ELSE img.bpp
  IN <<(IF run.raw THEN run.run_length - 1 ELSE run.run_length + 127) % 256>>
     \o [k \in 1..n |-> At(img.data, chunkstart + k - 1, u)]

\* while (curpix < npixels): the packets from curpix on
RECURSIVE unload_from(_, _, _)
unload_from(img, curpix, u) ==
  IF curpix >= img.w * img.h THEN <<>>
  ELSE LET run == ScanRun(img, curpix, u)
       IN EmitPacket(img, curpix, run, u)
          \o unload_from(img, curpix + run.run_length, u)

unload_rle_data(img, u) == unload_from(img, 0, u)

-----------------------------------------------------------------------------
(* TGAImage::write_tga_file *)

\* header.datatypecode
DataTypeCode(img, rle) ==
  IF img.bpp = GRAYSCALE THEN (IF rle THEN 11 ELSE 3) ELSE (IF rle THEN 10 ELSE 2)

\* a descriptor that ignores vflip
Descriptor_TopAlways(vflip) == 32

\* header.imagedescriptor
Descriptor(vflip) == IF vflip THEN 0 ELSE 32

\* the bytes of the file write_tga_file produces (no I/O error)
WriteTga(img, vflip, rle, u) ==
  [file |-> HeaderBytes(DataTypeCode(img, rle), img.w, img.h, img.bpp * 8,
                        Descriptor(vflip))
            \o (IF rle THEN unload_rle_data(img, u)
                ELSE [k \in 1..(img.w * img.h * img.bpp) |-> At(img.data, k - 1, u)])
            \o developer_area_ref \o extension_area_ref \o footer,
   oob |-> img.w * img.h * img.bpp > Len(img.data)]

-----------------------------------------------------------------------------
(* vec<n> of src/include/math/geometry.h: operator+ and operator-.  A value  *)
(* of an expression is [built, v]: v its components, built whether the       *)
(* expression is well-formed C++, that is, whether a build yields code for   *)
(* it at all.                                                                *)

\* a vec<n> with the components v
Vec(v) == [built |-> TRUE, v |-> v]

\* rhs[i], i counted from 0
Component(rhs, i) == rhs.v[i + 1]

\* ret += rhs[i] for a vec<n> ret and the double x = rhs[i]: geometry.h
\* declares no operator+= for a vec<n>, so the statement is ill-formed and
\* ret gets no value from it
PlusAssign(ret, i, x) == [ret EXCEPT !.built = FALSE]

\* ret -= rhs[i]: no operator-= for a vec<n> either
MinusAssign(ret, i, x) == [ret EXCEPT !.built = FALSE]

\* for (int i = 0; i < n; i++) ret += rhs[i];
RECURSIVE PlusLoop(_, _, _)
PlusLoop(ret, rhs, i) ==
  IF i >= Len(rhs.v) THEN ret
  ELSE PlusLoop(PlusAssign(ret, i, Component(rhs, i)), rhs, i + 1)

\* for (int i = 0; i < n; i++) ret -= rhs[i];
RECURSIVE MinusLoop(_, _, _)
MinusLoop(ret, rhs, i) ==
  IF i >= Len(rhs.v) THEN ret
  ELSE MinusLoop(MinusAssign(ret, i, Component(rhs, i)), rhs, i + 1)

\* operator+(const vec<n>& lhs, const vec<n>& rhs): vec<n> ret = lhs; the loop; return ret
operator_plus(lhs, rhs) == PlusLoop(lhs, rhs, 0)

\* operator-(const vec<n>& lhs, const vec<n>& rhs)
operator_minus(lhs, rhs) == MinusLoop(lhs, rhs, 0)

\* the operands and the result of the vector expression evaluated, if any
NoVecs == [op |-> "none", a |-> Vec(<<>>), b |-> Vec(<<>>), r |-> Vec(<<>>)]

\* a + b
DoPlus ==
  /\ vecs.op = "none"
  /\ vecs' = [vecs EXCEPT !.op = "operator+", !.r = operator_plus(vecs.a, vecs.b)]
  /\ UNCHANGED <<w, h, bpp, data, alive, last, enc>>

\* a - b
DoMinus ==
  /\ vecs.op = "none"
  /\ vecs' = [vecs EXCEPT !.op = "operator-", !.r = operator_minus(vecs.a, vecs.b)]
  /\ UNCHANGED <<w, h, bpp, data, alive, last, enc>>

-----------------------------------------------------------------------------
(* The operations as actions.  last records the operation that ran last:     *)
(* its arguments, what it returned (ret, ok, file), whether it accessed the  *)
(* vector out of bounds (oob) and the pixels the RLE decoder counted (px).   *)
(* For a flip it also records the image the flip started from (before) or,   *)
(* when the flip is the second of two flips of the same kind in a row        *)
(* (twice), the image the first of the two started from.                     *)

NoOp ==
  [op |-> "new", x |-> 0, y |-> 0, c |-> DefaultColor, ret |-> DefaultColor,
   file |-> <<>>, vflip |-> FALSE, rle |-> FALSE, ok |-> TRUE, oob |-> FALSE, px |-> 0,
   twice |-> FALSE, before |-> Image(0, 0, 0, <<>>)]

\* the object after an operation: img if it carried on; an operation that
\* accessed the vector out of bounds may instead have aborted the process
Outcome(img, rec) ==
  /\ last' = rec
  /\ UNCHANGED <<vecs, enc>>
  /\ \E abort \in (IF rec.oob THEN {FALSE, TRUE} ELSE {FALSE}) :
       /\ alive' = ~abort
       /\ w' = (IF abort THEN w ELSE img.w)
       /\ h' = (IF abort THEN h ELSE img.h)
       /\ bpp' = (IF abort THEN bpp ELSE img.bpp)
       /\ data' = (IF abort THEN data ELSE img.data)

\* the bytes an out-of-bounds read may return, when there is one
Foreign(oob) == IF oob THEN UBBytes ELSE {0}

\* TGAImage img(cw, ch, cb, c): the object is constructed once
DoConstruct(cw, ch, cb, c) ==
  /\ alive
  /\ last.op = "new"
  /\ Outcome(Construct(cw, ch, cb, c), [NoOp EXCEPT !.op = "construct", !.c = c])

DoSet(x, y, c) ==
  /\ alive
  /\ LET r == SetPix(Cur, x, y, c)
     IN Outcome(r.img, [NoOp EXCEPT !.op = "set", !.x = x, !.y = y, !.c = c,
                                    !.oob = r.oob])

DoGet(x, y) ==
  /\ alive
  /\ \E u \in Foreign(GetPix(Cur, x, y, 0).oob) :
       LET r == GetPix(Cur, x, y, u)
       IN Outcome(Cur, [NoOp EXCEPT !.op = "get", !.x = x, !.y = y, !.ret = r.ret,
                                    !.oob = r.oob])

\* the record of a flip named op of the current image
FlipRecord(op, oob) ==
  LET second == last.op = op /\ ~last.twice
  IN [NoOp EXCEPT !.op = op, !.oob = oob, !.twice = second,
                  !.before = IF second THEN last.before ELSE Cur]

DoFlipH ==
  /\ alive
  /\ \E u \in Foreign(FlipH(Cur, 0).oob) :
       LET r == FlipH(Cur, u)
       IN Outcome(r.img, FlipRecord("flip_horizontally", r.oob))

DoFlipV ==
  /\ alive
  /\ \E u \in Foreign(FlipV(Cur, 0).oob) :
       LET r == FlipV(Cur, u)
       IN Outcome(r.img, FlipRecord("flip_vertically", r.oob))

\* write_tga_file(path, vflip, rle): the image is const, the file is the output
DoWrite(vflip, rle) ==
  /\ alive
  /\ \E u \in Foreign(WriteTga(Cur, vflip, rle, 0).oob) :
       LET r == WriteTga(Cur, vflip, rle, u)
       IN Outcome(Cur, [NoOp EXCEPT !.op = "write", !.vflip = vflip, !.rle = rle,
                                    !.file = r.file, !.oob = r.oob])

\* read_tga_file(path) of a file with the bytes f
ReadAs(name, f, vflip, rle) ==
  LET r == ReadTga(Cur, f)
  IN Outcome(r.img, [NoOp EXCEPT !.op = name, !.file = f, !.ok = r.ok, !.oob = r.oob,
                                 !.px = r.px, !.vflip = vflip, !.rle = rle])

\* read_tga_file of the file the preceding write_tga_file wrote
DoReadBack ==
  /\ alive
  /\ last.op = "write"
  /\ ReadAs("readback", last.file, last.vflip, last.rle)

\* read_tga_file of a file found on disk
DoReadFile(f) ==
  /\ alive
  /\ ReadAs("read", f, FALSE, FALSE)

\* read_tga_file of a path that cannot be opened
DoReadMissing ==
  /\ alive
  /\ Outcome(Cur, [NoOp EXCEPT !.op = "read_missing", !.ok = FALSE])

\* unload_rle_data alone: the packet stream of the image
DoUnload ==
  /\ alive
  /\ \E u \in Foreign(w * h * bpp > Len(data)) :
       Outcome(Cur, [NoOp EXCEPT !.op = "unload_rle_data",
                                 !.file = unload_rle_data(Cur, u),
                                 !.oob = w * h * bpp > Len(data)])

\* load_rle_data alone, as read_tga_file runs it: into a zeroed buffer of
\* w*h*bpp bytes, on the stream unload_rle_data produced
DoLoad ==
  /\ alive
  /\ last.op = "unload_rle_data"
  /\ LET r == load_rle_data(last.file, 0, Image(w, h, bpp, Zeros(w * h * bpp)))
     IN Outcome(Image(w, h, bpp, r.st.data),
                [NoOp EXCEPT !.op = "load_rle_data", !.file = last.file, !.ok = r.ok,
                             !.oob = r.st.oob, !.px = r.st.px, !.x = r.st.pos])

-----------------------------------------------------------------------------
(* unload_rle_data, statement by statement.  enc is the call's frame: where   *)
(* it is (pc), its locals, whether the raw run was cut short at an equal     *)
(* pair (uncommit), and the packet it wrote last (pkt: the pixel it starts   *)
(* at, its run_length and raw, its bytes; run_length 0 before the first).    *)
(* The output stream stays good.                                             *)

NoPacket == [start |-> 0, run_length |-> 0, raw |-> TRUE, uncommit |-> FALSE, bytes |-> <<>>]

NotEncoding ==
  [pc |-> "idle", curpix |-> 0, chunkstart |-> 0, curbyte |-> 0, run_length |-> 0,
   raw |-> TRUE, uncommit |-> FALSE, pkt |-> NoPacket]

\* the call: npixels = w*h, curpix = 0
EncCall ==
  /\ alive /\ enc.pc = "idle"
  /\ enc' = [NotEncoding EXCEPT !.pc = "outer"]
  /\ UNCHANGED <<w, h, bpp, data, alive, last, vecs>>

\* while (curpix < npixels) { chunkstart = curbyte = curpix*bpp; run_length = 1; raw = true;
EncOuter ==
  /\ enc.pc = "outer" /\ enc.curpix < w * h
  /\ enc' = [enc EXCEPT !.pc = "inner", !.chunkstart = enc.curpix * bpp,
                         !.curbyte = enc.curpix * bpp, !.run_length = 1,
                         !.raw = TRUE, !.uncommit = FALSE]
  /\ UNCHANGED <<w, h, bpp, data, alive, last, vecs>>

\* the uint8_t run_length after run_length-- and run_length++
Dec8(n) == (n + 255) % 256
Inc8(n) == (n + 1) % 256

\* the inner while's condition
InnerCond == enc.curpix + enc.run_length < w * h /\ enc.run_length < max_chunk_length

\* one iteration of the inner while, with its test for the end of a raw run
\* moved before the assignment to raw
EncCompare_TestFirst ==
  /\ enc.pc = "inner" /\ InnerCond
  /\ LET succ_eq == SuccEq(Cur, enc.curbyte, 0)
         e1 == [enc EXCEPT !.curbyte = enc.curbyte + bpp]
     IN enc' = IF e1.raw /\ succ_eq
               THEN [e1 EXCEPT !.run_length = Dec8(e1.run_length), !.uncommit = TRUE,
                               !.pc = "emit"]
               ELSE LET raw == IF e1.run_length = 1 THEN ~succ_eq ELSE e1.raw
                        e2 == [e1 EXCEPT !.raw = raw]
                    IN IF ~raw /\ ~succ_eq
                       THEN [e2 EXCEPT !.pc = "emit"]
                       ELSE [e2 EXCEPT !.run_length = Inc8(e2.run_length)]
  /\ UNCHANGED <<w, h, bpp, data, alive, last, vecs>>

\* one iteration of the inner while, without the run_length-- of a raw run
\* that met an equal pair
EncCompare_NoDecrement ==
  /\ enc.pc = "inner" /\ InnerCond
  /\ LET succ_eq == SuccEq(Cur, enc.curbyte, 0)
         raw == IF enc.run_length = 1 THEN ~succ_eq ELSE enc.raw
         e1 == [enc EXCEPT !.curbyte = enc.curbyte + bpp, !.raw = raw]
     IN enc' = IF raw /\ succ_eq
               THEN [e1 EXCEPT !.uncommit = TRUE, !.pc = "emit"]
               ELSE IF ~raw /\ ~succ_eq
               THEN [e1 EXCEPT !.pc = "emit"]
               ELSE [e1 EXCEPT !.run_length = Inc8(e1.run_length)]
  /\ UNCHANGED <<w, h, bpp, data, alive, last, vecs>>

\* one iteration of the inner while: compare the pixel at curbyte with the
\* next, advance curbyte, classify the run on its first iteration, then break
\* (with run_length-- for a raw run) or run_length++
EncCompare ==
  /\ enc.pc = "inner" /\ InnerCond
  /\ LET succ_eq == SuccEq(Cur, enc.curbyte, 0)
         raw == IF enc.run_length = 1 THEN ~succ_eq ELSE enc.raw
         e1 == [enc EXCEPT !.curbyte = enc.curbyte + bpp, !.raw = raw]
     IN enc' = IF raw /\ succ_eq
               THEN [e1 EXCEPT !.run_length = Dec8(e1.run_length), !.uncommit = TRUE,
                               !.pc = "emit"]
               ELSE IF ~raw /\ ~succ_eq
               THEN [e1 EXCEPT !.pc = "emit"]
               ELSE [e1 EXCEPT !.run_length = Inc8(e1.run_length)]
  /\ UNCHANGED <<w, h, bpp, data, alive, last, vecs>>

\* the inner while's condition is false
EncInnerEnd ==
  /\ enc.pc = "inner" /\ ~InnerCond
  /\ enc' = [enc EXCEPT !.pc = "emit"]
  /\ UNCHANGED <<w, h, bpp, data, alive, last, vecs>>

\* curpix += run_length; out.put(raw ? run_length-1 : run_length+127);
\* out.write(data.data()+chunkstart, raw ? run_length*bpp : bpp); }
EncEmit ==
  /\ enc.pc = "emit"
  /\ LET n == IF enc.raw THEN enc.run_length * bpp ELSE bpp
         bytes == <<(IF enc.raw THEN enc.run_length + 255 ELSE enc.run_length + 127) % 256>>
                  \o [k \in 1..n |-> At(data, enc.chunkstart + k - 1, 0)]
     IN enc' = [enc EXCEPT !.pc = "outer", !.curpix = enc.curpix + enc.run_length,
                           !.pkt = [start |-> enc.curpix, run_length |-> enc.run_length,
                                    raw |-> enc.raw, uncommit |-> enc.uncommit,
                                    bytes |-> bytes]]
  /\ UNCHANGED <<w, h, bpp, data, alive, last, vecs>>

\* curpix >= npixels: return true
EncReturn ==
  /\ enc.pc = "outer" /\ enc.curpix >= w * h
  /\ enc' = [enc EXCEPT !.pc = "done"]
  /\ UNCHANGED <<w, h, bpp, data, alive, last, vecs>>

-----------------------------------------------------------------------------
(* Images and files the specifications draw from *)

\* the first nb bytes of a pixel
PixBytes(p, nb) == SubSeq(p, 1, nb)

\* the byte sequences of n pixels of S, nb bytes each
RECURSIVE PixSeqs(_, _, _)
PixSeqs(n, nb, S) ==
  IF n = 0 THEN {<<>>}
  ELSE { PixBytes(p, nb) \o s : p \in S, s \in PixSeqs(n - 1, nb, S) }

\* every image of at most MaxPix pixels of S
ImagesOver(S) ==
  UNION { { Image(d[1], d[2], b, s) : s \in PixSeqs(d[1] * d[2], b, S) } :
          d \in Dims, b \in Formats }

\* the image of cw x ch pixels whose bytes are all different: 0, 1, 2, ...
Ramp(cw, ch, cb) == Image(cw, ch, cb, [k \in 1..(cw * ch * cb) |-> k - 1])

\* the images the flips are run on: every small image, and the images of all
\* different bytes of every width and height up to MaxDim + 1
FlipImages ==
  ImagesOver(Pixels)
  \cup { Ramp(cw, ch, b) : cw \in 1..(MaxDim + 1), ch \in 1..(MaxDim + 1), b \in Formats }

\* images of max_chunk_length identical pixels followed by one different pixel
BoundaryDims ==
  { d \in (1..(max_chunk_length + 1)) \X (1..(max_chunk_length + 1)) :
      d[1] * d[2] = max_chunk_length + 1 }

BoundaryImages ==
  UNION { { Image(d[1], d[2], b,
                  Repeat(PixBytes(pq[1], b), max_chunk_length) \o PixBytes(pq[2], b)) :
            pq \in { x \in Pixels \X Pixels : PixBytes(x[1], b) # PixBytes(x[2], b) } } :
          d \in BoundaryDims, b \in Formats }

\* rows of about max_chunk_length pixels, each pixel one of two, in the shapes
\* that take a run to the packet-length limit: all the same; alternating; k of
\* one and then the other; alternating and then ending in an equal pair;
\* alternating with pixel max_chunk_length equal to the one before it
LongLengths == {max_chunk_length, max_chunk_length + 1, max_chunk_length + 2}

LongShapes ==
  {"same", "alternating", "step1", "step127", "step128", "pair_at_end", "pair_at_limit"}

First(shape, i, n) ==
  CASE shape = "same" -> TRUE
    [] shape = "alternating" -> i % 2 = 0
    [] shape = "step1" -> i < 1
    [] shape = "step127" -> i < max_chunk_length - 1
    [] shape = "step128" -> i < max_chunk_length
    [] shape = "pair_at_end" -> i % 2 = 0 \/ i = n - 1
    [] shape = "pair_at_limit" -> i % 2 = 0 /\ i # max_chunk_length

LongRow(shape, n, p, q) ==
  [k \in 1..(n * Len(p)) |->
     IF First(shape, (k - 1) \div Len(p), n)
     THEN p[((k - 1) % Len(p)) + 1] ELSE q[((k - 1) % Len(p)) + 1]]

LongImages ==
  UNION { { Image(n, 1, b, LongRow(shape, n, PixBytes(pq[1], b), PixBytes(pq[2], b))) :
            pq \in { x \in Pixels \X Pixels : PixBytes(x[1], b) # PixBytes(x[2], b) },
            shape \in LongShapes } :
          n \in LongLengths, b \in Formats }

\* the files the API specification reads: one of each way a read can go
FilesMain ==
  { <<>>,
    SubSeq(HeaderBytes(2, 1, 1, 24, 32), 1, HeaderSize - 1),
    HeaderBytes(2, 0, 1, 24, 32),
    HeaderBytes(2, 1, 2, 16, 32) \o Zeros(4),
    HeaderBytes(3, 1, 1, 15, 32) \o <<7>>,
    HeaderBytes(1, 1, 1, 8, 32) \o <<7>>,
    HeaderBytes(2, 2, 1, 24, 0) \o <<7, 8, 9, 0, 0, 0>>,
    HeaderBytes(2, 2, 1, 24, 0) \o <<7, 8, 9, 0, 0>>,
    HeaderBytes(3, 1, 2, 8, 16) \o <<7, 0>> \o footer,
    HeaderBytes(11, 2, 1, 8, 32) \o <<129, 7>>,
    HeaderBytes(11, 2, 1, 8, 32) \o <<130, 7>>,
    HeaderBytes(11, 2, 1, 8, 32) \o <<1, 7>> }

\* header fields the read specification tries
HeaderBits == {0, 1, 7, 8, 9, 15, 16, 23, 24, 25, 31, 32, 33, 40, 255}
HeaderTypes == {0, 1, 2, 3, 10, 11}
HeaderDims == { d \in (0..MaxPix) \X (0..MaxPix) : d[1] * d[2] <= MaxPix }

\* pixel data of zeros, complete for n pixels of nb bytes in the format of type t
ZeroData(t, n, nb) ==
  IF t \in {10, 11} THEN Repeat(<<0>> \o Zeros(nb), n) ELSE Zeros(n * nb)

\* a raw file over the pixel data s: whole, followed by a footer, or cut one
\* byte short
RawFile(form, d, b, desc, s) ==
  CASE form = 1 -> HeaderBytes(2, d[1], d[2], b * 8, desc) \o s
    [] form = 2 -> HeaderBytes(3, d[1], d[2], b * 8, desc) \o s \o footer
    [] form = 3 -> HeaderBytes(2, d[1], d[2], b * 8, desc) \o SubSeq(s, 1, Len(s) - 1)

\* RLE packets of up to three pixels, streams of up to two packets, and every
\* prefix of such a stream
RlePixels == { <<7, 8, 9, 10>>, <<7, 8, 5, 11>> }

RlePackets(nb) ==
  UNION { { <<n - 1>> \o s : s \in PixSeqs(n, nb, RlePixels) } : n \in 1..3 }
  \cup { <<n + 127>> \o PixBytes(p, nb) : n \in 1..3, p \in RlePixels }

RleStreams(nb) ==
  LET P == RlePackets(nb)
      S == P \cup { p \o q : p \in P, q \in P }
  IN UNION { { SubSeq(s, 1, k) : k \in 0..Len(s) } : s \in S }

-----------------------------------------------------------------------------
(* Specifications *)

\* TGAImage() = default: the empty image
Empty ==
  /\ w = 0 /\ h = 0 /\ bpp = 0 /\ data = <<>>
  /\ alive = TRUE
  /\ last = NoOp
  /\ vecs = NoVecs
  /\ enc = NotEncoding

\* an image object holding img
Holding(img) ==
  /\ w = img.w /\ h = img.h /\ bpp = img.bpp /\ data = img.data
  /\ alive = TRUE
  /\ last = NoOp
  /\ vecs = NoVecs
  /\ enc = NotEncoding

\* The API: every operation, in any order, on one object
Init == Empty

Next ==
  \/ \E cw \in 1..MaxDim, ch \in 1..MaxDim, b \in Formats, c \in Colors :
       DoConstruct(cw, ch, b, c)
  \/ \E x \in -1..w, y \in -1..h, c \in Colors : DoSet(x, y, c)
  \/ \E x \in -1..w, y \in -1..h : DoGet(x, y)
  \/ DoFlipH
  \/ DoFlipV
  \/ \E vflip \in BOOLEAN, rle \in BOOLEAN : DoWrite(vflip, rle)
  \/ DoReadBack
  \/ \E f \in FilesMain : DoReadFile(f)
  \/ DoReadMissing

Spec == Init /\ [][Next]_vars

\* read_tga_file of one file into a default-constructed image: a file with any
\* header over complete pixel data of zeros, a raw file of any orientation over
\* any pixel content, an RLE file over any packet stream
ReadHeaderFile ==
  /\ last.op = "new"
  /\ \E t \in HeaderTypes, d \in HeaderDims, b \in HeaderBits, desc \in {0, 32} :
       DoReadFile(HeaderBytes(t, d[1], d[2], b, desc)
                  \o ZeroData(t, d[1] * d[2], b \div 8))

ReadRawFile ==
  /\ last.op = "new"
  /\ \E d \in Dims, b \in Formats, desc \in {0, 16, 32, 48}, form \in 1..3 :
       \E s \in PixSeqs(d[1] * d[2], b, Pixels) :
          DoReadFile(RawFile(form, d, b, desc, s))

ReadRleFile ==
  /\ last.op = "new"
  /\ \E d \in Dims, b \in Formats, desc \in {0, 48} :
       \E s \in RleStreams(b) :
          DoReadFile(HeaderBytes(IF b = GRAYSCALE THEN 11 ELSE 10, d[1], d[2], b * 8, desc)
                     \o s)

NextRead ==
  \/ ReadHeaderFile
  \/ ReadRawFile
  \/ ReadRleFile

SpecRead == Empty /\ [][NextRead]_vars

\* write_tga_file of an image, then read_tga_file of the file written
InitRoundTrip == \E img \in ImagesOver(Pixels) : Holding(img)

NextRoundTrip ==
  \/ \E vflip \in BOOLEAN, rle \in BOOLEAN : DoWrite(vflip, rle)
  \/ DoReadBack

SpecRoundTrip == InitRoundTrip /\ [][NextRoundTrip]_vars

\* the RLE encoder and decoder alone, on the images at the packet-length limit,
\* on the long rows and on every small image
InitCodec ==
  \E img \in BoundaryImages \cup LongImages \cup ImagesOver(Pixels) : Holding(img)

NextCodec ==
  \/ DoUnload
  \/ DoLoad

SpecCodec == InitCodec /\ [][NextCodec]_vars

\* the dimensions n of the vec<n> operands: the primary template and the
\* specialisations vec<2>, vec<3>
VecDims == {1, 2, 3}

\* integer-valued vectors of dimension n
Vecs(n) == { Vec(v) : v \in [1..n -> (-MaxCoord)..MaxCoord] }

\* a + b and a - b for two vectors of the same dimension
InitVec ==
  /\ w = 0 /\ h = 0 /\ bpp = 0 /\ data = <<>>
  /\ alive = TRUE
  /\ last = NoOp
  /\ enc = NotEncoding
  /\ \E n \in VecDims : \E a \in Vecs(n), b \in Vecs(n) :
       vecs = [NoVecs EXCEPT !.a = a, !.b = b]

NextVec ==
  \/ DoPlus
  \/ DoMinus

SpecVec == InitVec /\ [][NextVec]_vars

\* one call of unload_rle_data on an image, statement by statement; the code
\* is sequential, so a statement that can run does
InitEncoder == InitCodec

NextEncoder ==
  \/ EncCall
  \/ EncOuter
  \/ EncCompare
  \/ EncInnerEnd
  \/ EncEmit
  \/ EncReturn

SpecEncoder == InitEncoder /\ [][NextEncoder]_vars /\ WF_vars(NextEncoder)

\* the two flips, in any order, on an image
InitFlip == \E img \in FlipImages : Holding(img)

NextFlip ==
  \/ DoFlipH
  \/ DoFlipV

SpecFlip == InitFlip /\ [][NextFlip]_vars

-----------------------------------------------------------------------------
(* Round trips through a file *)

\* the claims' images: positive size, a supported format
Supported == w > 0 /\ h > 0 /\ bpp \in Formats

\* this step is read_tga_file of the file write_tga_file(path, vflip, rle) just
\* wrote of the image as it is before the step
ReadsBack(vflip, rle) ==
  /\ last'.op = "readback" /\ last'.vflip = vflip /\ last'.rle = rle
  /\ Supported

SameShape == w' = w /\ h' = h /\ bpp' = bpp /\ Len(data') = Len(data)

\* the buffer after the step holds the rows of the buffer before it in reverse order
RowsReversed ==
  \A x \in 0..(w - 1), y \in 0..(h - 1), t \in 1..bpp :
     data'[(x + y * w) * bpp + t] = data[(x + (h - 1 - y) * w) * bpp + t]

\* C1 as stated: write(path, vflip=true, rle=false) then read(path) succeeds and
\* leaves width, height, bpp and the pixel buffer byte-for-byte as they were.
C1_AsStated ==
  [][ReadsBack(TRUE, FALSE) => last'.ok /\ SameShape /\ data' = data]_vars

\* C1 amended: the read succeeds and keeps width, height and bpp, and the buffer
\* comes back with its rows in reverse order; it is with vflip=false that the
\* buffer comes back byte-for-byte.
C1_RawRoundTrip ==
  [][/\ ReadsBack(TRUE, FALSE) => last'.ok /\ SameShape /\ RowsReversed
     /\ ReadsBack(FALSE, FALSE) => last'.ok /\ SameShape /\ data' = data]_vars

\* the buffer differs from itself with its rows reversed
NotMirror ==
  \E x \in 0..(w - 1), y \in 0..(h - 1), t \in 1..bpp :
     data[(x + y * w) * bpp + t] # data[(x + (h - 1 - y) * w) * bpp + t]

C1_Witness ==
  /\ last.op = "readback" /\ last.vflip /\ ~last.rle /\ last.ok
  /\ Supported /\ h >= 2 /\ NotMirror

\* C2 as stated: write(path, vflip=true, rle=true) then read(path) succeeds and
\* leaves width, height, bpp and the pixel buffer byte-for-byte as they were.
C2_AsStated ==
  [][ReadsBack(TRUE, TRUE) => last'.ok /\ SameShape /\ data' = data]_vars

\* C2 amended: through the RLE encoder and decoder the read succeeds and keeps
\* width, height and bpp, and the buffer comes back with its rows in reverse
\* order; it is with vflip=false that the buffer comes back byte-for-byte.
C2_RleRoundTrip ==
  [][/\ ReadsBack(TRUE, TRUE) => last'.ok /\ SameShape /\ RowsReversed
     /\ ReadsBack(FALSE, TRUE) => last'.ok /\ SameShape /\ data' = data]_vars

C2_Witness ==
  /\ last.op = "readback" /\ last.vflip /\ last.rle /\ last.ok
  /\ Supported /\ h >= 2 /\ NotMirror
  /\ HdrType(last.file) \in {10, 11}

-----------------------------------------------------------------------------
(* The buffer's size *)

\* C3: in every state reachable by construction, read (successful or not), set,
\* the flips and write, the buffer's length is width * height * bpp.
C3_BufferSize == Len(data) = w * h * bpp

-----------------------------------------------------------------------------
(* Reading *)

\* the last operation was read_tga_file of a file with a whole header
HasRead == last.op = "read" /\ Len(last.file) >= HeaderSize

\* the header's size in pixels and bytes per pixel, as the format defines them
FileBpp == HdrBits(last.file) \div 8
FilePixels == HdrWidth(last.file) * HdrHeight(last.file)

\* What a packet stream amounts to for an image of limit pixels: walking whole
\* packets from offset pos with count pixels so far, "exact" if a packet ends
\* on the limit, "overrun" if a packet passes it, "truncated" if the file ends
\* first.
RECURSIVE Walk(_, _, _, _, _)
Walk(f, pos, nb, count, limit) ==
  IF pos >= Len(f) THEN "truncated"
  ELSE LET hdr == f[pos + 1]
           n == IF hdr < 128 THEN hdr + 1 ELSE hdr - 127
           size == 1 + (IF hdr < 128 THEN n * nb ELSE nb)
       IN IF pos + size > Len(f) /\ (hdr >= 128 \/ (Len(f) - pos - 1) \div nb <= limit - count)
          THEN "truncated"
          ELSE IF count + n > limit THEN "overrun"
          ELSE IF count + n = limit THEN "exact"
          ELSE Walk(f, pos + size, nb, count + n, limit)

\* the last operation read an RLE file whose header the code accepts
HasReadRle ==
  /\ HasRead
  /\ HdrType(last.file) \in {10, 11}
  /\ FilePixels > 0 /\ FileBpp \in {1, 3, 4}

StreamIs == Walk(last.file, HeaderSize, FileBpp, 0, FilePixels)

\* C4: read of an RLE file returns success only if its packets decode to
\* exactly width * height pixels; a stream that ends early, also inside a
\* packet or a pixel, or that a packet takes past width * height, is not read
\* with success.
C4_CorruptRleRejected ==
  HasReadRle =>
    /\ last.ok <=> StreamIs = "exact"
    /\ last.ok => last.px = w * h /\ w * h = FilePixels /\ Len(data) = w * h * bpp

C4_Witness ==
  /\ HasReadRle /\ ~last.ok /\ StreamIs = "overrun"
  /\ last.file[HeaderSize + 1] >= 128

\* C5: read fails for every header whose width is 0, whose height is 0, or
\* whose bits-per-pixel field is not 8, 24 or 32.
C5_HeaderValidation ==
  HasRead /\ ( \/ HdrWidth(last.file) = 0
               \/ HdrHeight(last.file) = 0
               \/ HdrBits(last.file) \notin {8, 24, 32} )
    => ~last.ok

\* the pixel data of the file read, in the file's order: as stored in a raw
\* file, as the packets expand in an RLE file
Stored ==
  IF HdrType(last.file) \in {2, 3}
  THEN Slice(last.file, HeaderSize, w * h * bpp)
  ELSE load_rle_data(last.file, HeaderSize, Image(w, h, bpp, Zeros(w * h * bpp))).st.data

StoredPixel(x, y) == Slice(Stored, (x + y * w) * bpp, bpp)
BufferPixel(x, y) == Slice(data, (x + y * w) * bpp, bpp)

\* C8: after a successful read, buffer pixel (x,y) is the file's stored pixel
\* (x',y'), y' = height-1-y unless descriptor bit 0x20 is set, x' = width-1-x
\* if bit 0x10 is set.
C8_Orientation ==
  HasRead /\ last.ok =>
    LET desc == HdrDesc(last.file)
        top == (desc \div 32) % 2 = 1
        rtl == (desc \div 16) % 2 = 1
    IN \A x \in 0..(w - 1), y \in 0..(h - 1) :
         BufferPixel(x, y) = StoredPixel(IF rtl THEN w - 1 - x ELSE x,
                                         IF top THEN y ELSE h - 1 - y)

C8_Witness ==
  /\ HasRead /\ last.ok /\ HdrDesc(last.file) = 16
  /\ w = 2 /\ h = 2
  /\ StoredPixel(0, 0) # StoredPixel(1, 0)
  /\ StoredPixel(0, 0) # StoredPixel(0, 1)
  /\ BufferPixel(1, 1) = StoredPixel(0, 0)

\* a successful read of a file whose descriptor has neither bit 0x20 nor 0x10:
\* its rows are stored bottom-to-top, left to right
ReadBottomUp ==
  /\ HasRead /\ last.ok
  /\ (HdrDesc(last.file) \div 16) % 4 = 0

\* the first bpp bytes of what get(x, y) returns
GetBytes(x, y) == PixBytes(GetPix(Cur, x, y, 0).ret.bgra, bpp)

\* C9 as stated: get(0,0) is the file's bottom-left pixel, the first pixel of
\* the first row stored.
C9_AsStated == ReadBottomUp => GetBytes(0, 0) = StoredPixel(0, 0)

\* C9 amended: get(0,0) is the file's top-left pixel, the first pixel of the
\* last row stored; the file's bottom-left pixel is what get(0, height-1) returns.
C9_TopLeft ==
  ReadBottomUp =>
    /\ GetBytes(0, 0) = StoredPixel(0, h - 1)
    /\ GetBytes(0, h - 1) = StoredPixel(0, 0)

C9_Witness ==
  /\ ReadBottomUp /\ h >= 2
  /\ StoredPixel(0, 0) # StoredPixel(0, h - 1)
  /\ GetBytes(0, 0) = StoredPixel(0, h - 1)

-----------------------------------------------------------------------------
(* get and set *)

\* C6: get(x,y) returns the bpp bytes stored at (x,y) when 0<=x<width,
\* 0<=y<height and the buffer is not empty; otherwise the zero pixel: all
\* channel bytes 0, the tag the image's bpp.
C6_Get ==
  last.op = "get" /\ alive =>
    IF last.x >= 0 /\ last.x < w /\ last.y >= 0 /\ last.y < h /\ Len(data) > 0
    THEN /\ (last.x + last.y * w) * bpp + bpp <= Len(data)
         /\ PixBytes(last.ret.bgra, bpp) = BufferPixel(last.x, last.y)
    ELSE last.ret = TGAColor(<<0, 0, 0, 0>>, bpp)

\* C7: set(x,y,pixel) on an in-range cell of a non-empty image makes the cell's
\* bpp bytes the pixel's first bpp bytes and changes no other byte, nor width,
\* height or bpp; anywhere else it changes nothing.
C7_SetFrame ==
  [][last'.op = "set" =>
       /\ alive' /\ w' = w /\ h' = h /\ bpp' = bpp /\ Len(data') = Len(data)
       /\ LET x == last'.x
              y == last'.y
              off == (x + y * w) * bpp
          IN IF x >= 0 /\ x < w /\ y >= 0 /\ y < h /\ Len(data) > 0
             THEN /\ off + bpp <= Len(data)
                  /\ \A k \in 1..Len(data) :
                       data'[k] = IF k > off /\ k <= off + bpp
                                  THEN last'.c.bgra[k - off] ELSE data[k]
             ELSE data' = data]_vars

-----------------------------------------------------------------------------
(* The packet-length limit *)

\* the image is max_chunk_length identical pixels followed by a different one
AtLimit ==
  /\ w * h = max_chunk_length + 1 /\ bpp \in Formats
  /\ Len(data) = w * h * bpp
  /\ \A i \in 1..(max_chunk_length - 1) : BufferPixel(i, 0) = BufferPixel(0, 0)
  /\ BufferPixel(max_chunk_length, 0) # BufferPixel(0, 0)

\* [255, P, 0, Q] for the image's first pixel P and last pixel Q
LimitStream ==
  <<255>> \o BufferPixel(0, 0) \o <<0>> \o BufferPixel(max_chunk_length, 0)

\* C10: 128 identical pixels P followed by a different pixel Q are encoded as
\* [255, P, 0, Q], and the decoder, given that stream for an image of 129
\* pixels, reproduces the 129 pixels.
C10_PacketBoundary ==
  /\ last.op = "unload_rle_data" /\ AtLimit => last.file = LimitStream
  /\ last.op = "load_rle_data" /\ w * h = max_chunk_length + 1
       /\ Len(last.file) = 2 + 2 * bpp /\ last.file[1] = 255 /\ last.file[bpp + 2] = 0
       => /\ last.ok /\ last.px = max_chunk_length + 1
          /\ data = Repeat(Slice(last.file, 1, bpp), max_chunk_length)
                    \o Slice(last.file, bpp + 2, bpp)

C10_Witness ==
  /\ last.op = "load_rle_data" /\ last.ok /\ AtLimit
  /\ last.file = LimitStream

-----------------------------------------------------------------------------
(* The flips *)

Flips == {"flip_horizontally", "flip_vertically"}

\* C11: a flip leaves width, height and bpp (and the buffer's length) as they
\* were, and the second of two flip_horizontally, or of two flip_vertically,
\* in a row leaves the buffer exactly as it was before the first.
C11_FlipInvolution ==
  last.op \in Flips =>
    /\ alive
    /\ w = last.before.w /\ h = last.before.h /\ bpp = last.before.bpp
    /\ Len(data) = Len(last.before.data)
    /\ last.twice => data = last.before.data

\* a second flip_horizontally in a row on an image of odd width, several rows
\* and all different bytes
C11_Witness ==
  /\ last.op = "flip_horizontally" /\ last.twice
  /\ w = 3 /\ h >= 2 /\ bpp = RGB
  /\ data = Ramp(w, h, bpp).data

\* the same for flip_vertically, the flip before that pair having been horizontal
C11_WitnessV ==
  /\ last.op = "flip_vertically" /\ last.twice
  /\ w >= 2 /\ h = 3
  /\ data = FlipH(Ramp(w, h, bpp), 0).img.data

-----------------------------------------------------------------------------
(* Vectors *)

\* C12: for vectors a, b of the same dimension n with integer components,
\* a + b is a vector with (a + b)[i] = a[i] + b[i], and a - b a vector with
\* (a - b)[i] = a[i] - b[i], for every index i.
C12_Componentwise ==
  /\ vecs.op = "operator+" =>
       /\ vecs.r.built /\ Len(vecs.r.v) = Len(vecs.a.v)
       /\ \A i \in 1..Len(vecs.a.v) : vecs.r.v[i] = vecs.a.v[i] + vecs.b.v[i]
  /\ vecs.op = "operator-" =>
       /\ vecs.r.built /\ Len(vecs.r.v) = Len(vecs.a.v)
       /\ \A i \in 1..Len(vecs.a.v) : vecs.r.v[i] = vecs.a.v[i] - vecs.b.v[i]

-----------------------------------------------------------------------------
(* The RLE encoder and decoder *)

\* this step is load_rle_data, into a zeroed buffer of width * height * bpp
\* bytes, of the stream unload_rle_data produced of the image before the step
DecodesEncoded ==
  /\ last.op = "unload_rle_data" /\ last'.op = "load_rle_data"
  /\ Supported /\ Len(data) = w * h * bpp

\* C13: the decoder, given the encoder's stream of a pixel sequence of
\* width * height >= 1 pixels and the same width, height and bpp, succeeds,
\* consumes the whole stream, counts exactly width * height pixels and yields
\* the original sequence (writing nowhere else).
C13_DecodeInvertsEncode ==
  [][DecodesEncoded =>
       /\ last'.file = last.file
       /\ last'.ok /\ alive' /\ ~last'.oob
       /\ last'.x = Len(last.file)
       /\ last'.px = w * h
       /\ data' = data /\ w' = w /\ h' = h /\ bpp' = bpp]_vars

\* decoded: a stream of several packets, raw and repeated, one of them of
\* max_chunk_length pixels, of an image that is not all zeros
C13_Witness ==
  /\ last.op = "load_rle_data" /\ last.ok
  /\ w * h = max_chunk_length + 2
  /\ last.file[1] = max_chunk_length - 1
  /\ last.file[max_chunk_length * bpp + 2] = 129
  /\ data # Zeros(w * h * bpp)
  /\ last.x = Len(last.file)

\* pixel i of the buffer, counted along the rows
Pix(i) == Slice(data, i * bpp, bpp)

\* the encoder has written a packet
Emitted == enc.pkt.bytes # <<>>

\* the inner while leaves run_length and raw as its summary ScanRun says, and
\* the packet written is the one EmitPacket says
EncoderSummary ==
  /\ enc.pc = "emit" =>
       [run_length |-> enc.run_length, raw |-> enc.raw] = ScanRun(Cur, enc.curpix, 0)
  /\ Emitted =>
       enc.pkt.bytes = EmitPacket(Cur, enc.pkt.start,
                                  [run_length |-> enc.pkt.run_length, raw |-> enc.pkt.raw], 0)

\* C14: a raw packet of n pixels has 1 <= n <= 128, header byte n-1, those n
\* pixels as its payload and no two adjacent pixels in it equal; a repeated
\* packet of n pixels has n <= 128, header byte n+127, one pixel as its payload
\* and all n pixels equal to it; a raw run that meets two equal adjacent pixels
\* leaves the first of the pair out, and that pixel starts the next packet (a
\* raw packet ends nowhere else than at such a pair, at 128 pixels or at the
\* end of the image).
C14_PacketsWellFormed ==
  /\ [](Emitted =>
        LET start == enc.pkt.start
            n == enc.pkt.run_length
        IN /\ n >= 1 /\ n <= max_chunk_length /\ start + n <= w * h
           /\ enc.pkt.raw =>
                /\ enc.pkt.bytes = <<n - 1>> \o Slice(data, start * bpp, n * bpp)
                /\ \A i \in start..(start + n - 2) : Pix(i) # Pix(i + 1)
                /\ enc.pkt.uncommit <=> n < max_chunk_length /\ start + n < w * h
           /\ ~enc.pkt.raw =>
                /\ enc.pkt.bytes = <<n + 127>> \o Pix(start)
                /\ \A i \in start..(start + n - 1) : Pix(i) = Pix(start)
                /\ ~enc.pkt.uncommit
           /\ enc.pkt.uncommit =>
                /\ start + n + 1 < w * h
                /\ Pix(start + n) = Pix(start + n + 1)
                /\ Pix(start + n - 1) # Pix(start + n))
  /\ [][Emitted /\ enc.pkt.uncommit /\ enc'.pkt # enc.pkt =>
          /\ enc'.pkt.start = enc.pkt.start + enc.pkt.run_length
          /\ ~enc'.pkt.raw]_vars

\* a raw packet of several pixels that ended at an equal pair has been written
C14_Witness ==
  /\ Emitted /\ enc.pkt.raw /\ enc.pkt.uncommit
  /\ enc.pkt.run_length = max_chunk_length - 2
  /\ enc.pc = "outer"

\* C15: every iteration of the outer loop writes one packet that consumes at
\* least 1 and at most 128 pixels (run_length is never 0 when the packet is
\* written, also after the decrement of a raw run), the encoder terminates, and
\* it has then consumed exactly width * height pixels.
C15_EncoderTerminates ==
  /\ [](enc.pc = "emit" => enc.run_length >= 1 /\ enc.run_length <= max_chunk_length)
  /\ [][enc.pc = "emit" /\ enc'.pc = "outer" =>
          /\ enc'.curpix - enc.curpix >= 1
          /\ enc'.curpix - enc.curpix <= max_chunk_length
          /\ enc'.curpix - enc.curpix = enc'.pkt.run_length
          /\ enc'.pkt.start = enc.curpix
          /\ enc'.curpix <= w * h]_vars
  /\ <>(enc.pc = "done")
  /\ [](enc.pc = "done" => enc.curpix = w * h)

\* the encoder has returned from a row of max_chunk_length pixels that it
\* wrote as a raw packet cut short at the final pair and a repeated packet
C15_Witness ==
  /\ enc.pc = "done"
  /\ w * h = max_chunk_length
  /\ ~enc.pkt.raw /\ enc.pkt.start = max_chunk_length - 2 /\ enc.pkt.run_length = 2

-----------------------------------------------------------------------------
(* The decoder's stores *)

\* C16: for every RLE stream, also one whose packets describe more than
\* width * height pixels, the decoder stores no byte at an index >=
\* width * height * bpp of the buffer: an overrunning packet is rejected
\* before a byte is stored past the buffer's end.
C16_DecoderInBounds ==
  HasReadRle => alive /\ ~last.oob

====
